---- MODULE Spec2Model ----
(***************************************************************************)
(* A model of lsst.validate.base: the Name algebra of naming.py, the Blob   *)
(* container of blob.py, the Metric and MetricSet of metric.py and the     *)
(* Measurement of measurement.py.                                          *)
(*                                                                         *)
(* Python strings are sequences of one-character strings, so that          *)
(* str.split('.') and the '{a}.{b}' formatting of __str__ are computed     *)
(* and not assumed.  An optional component (None or a str) is << >> for    *)
(* None and << s >> for the string s.                                      *)
(***************************************************************************)
EXTENDS Naturals, Sequences, FiniteSets

VARIABLES pc, held, args, result, out,
          blobs, nextId, lastOp,
          mpc, mheld, mcall, mset, meas, mout,
          jcalls,
          trio, order, forms

nameVars == <<pc, held, args, result, out>>
blobVars == <<blobs, nextId, lastOp>>
metricVars == <<mpc, mheld, mcall, mset, meas, mout>>
jobVars == <<jcalls>>
algebraVars == <<trio, order, forms>>
vars == <<pc, held, args, result, out, blobs, nextId, lastOp,
          mpc, mheld, mcall, mset, meas, mout, jcalls, trio, order, forms>>

(***************************************************************************)
(* Bounds of the model.                                                    *)
(***************************************************************************)
\* the characters of the str arguments of one call of the Name constructor
MaxLen == 3

Chars == {"a", "."}
Dot == "."

RECURSIVE SeqsUpTo(_, _)
SeqsUpTo(S, n) ==
    IF n = 0 THEN {<< >>}
    ELSE LET shorter == SeqsUpTo(S, n - 1)
         IN  shorter \cup {Append(s, c) : s \in {t \in shorter : Len(t) = n - 1}, c \in S}

Strings == SeqsUpTo(Chars, MaxLen)

(***************************************************************************)
(* Python values.                                                          *)
(***************************************************************************)
None == << >>
Some(s) == << s >>
IsNone(x) == x = None
Val(x) == x[1]

\* the attributes of a Name object
EmptyName == [package |-> None, metric |-> None, spec |-> None]

\* an argument of Name(...): absent (None), a str or a Name instance
NoArg == [kind |-> "none", str |-> << >>, name |-> EmptyName]
StrArg(s) == [kind |-> "str", str |-> s, name |-> EmptyName]
NameArg(n) == [kind |-> "name", str |-> << >>, name |-> n]

(***************************************************************************)
(* str.split('.') and the dotted formatting.                               *)
(***************************************************************************)
HasDot(s) == \E i \in 1..Len(s) : s[i] = Dot
FirstDot(s) == CHOOSE i \in 1..Len(s) : s[i] = Dot /\ \A j \in 1..(i - 1) : s[j] # Dot

RECURSIVE split(_)
split(s) ==
    IF ~HasDot(s) THEN << s >>
    ELSE LET i == FirstDot(s)
         IN  << SubSeq(s, 1, i - 1) >> \o split(SubSeq(s, i + 1, Len(s)))

\* what str.format renders for an attribute: the string, or 'None'
Fmt(x) == IF x = << >> THEN << "N", "o", "n", "e" >> ELSE x[1]
\* '{a}.{b}'.format(...)
format2(a, b) == Fmt(a) \o << Dot >> \o Fmt(b)
\* '{a}.{b}.{c}'.format(...)
format3(a, b, c) == Fmt(a) \o << Dot >> \o Fmt(b) \o << Dot >> \o Fmt(c)

(***************************************************************************)
(* The static parsers.  ok = FALSE models the ValueError.                  *)
(***************************************************************************)
Parsed(p, m, s) == [ok |-> TRUE, package |-> p, metric |-> m, spec |-> s]
ValueError == [ok |-> FALSE, package |-> None, metric |-> None, spec |-> None]

parse_fqn_string(fqn) ==
    LET parts == split(fqn)
    IN  IF Len(parts) = 1 THEN Parsed(Some(parts[1]), None, None)
        ELSE IF Len(parts) = 2 THEN Parsed(Some(parts[1]), Some(parts[2]), None)
        ELSE IF Len(parts) = 3 THEN Parsed(Some(parts[1]), Some(parts[2]), Some(parts[3]))
        ELSE ValueError

parse_metric_name_string(name) ==
    LET parts == split(name)
    IN  IF Len(parts) = 2 THEN Parsed(Some(parts[1]), Some(parts[2]), None)
        ELSE IF Len(parts) = 1 THEN Parsed(None, Some(parts[1]), None)
        ELSE ValueError

\* a spec parser that reads a two-part string as spec.metric
parse_spec_name_string_swapped(name) ==
    LET parts == split(name)
    IN  IF Len(parts) = 1 THEN Parsed(None, None, Some(parts[1]))
        ELSE IF Len(parts) = 2 THEN Parsed(None, Some(parts[2]), Some(parts[1]))
        ELSE IF Len(parts) = 3 THEN Parsed(Some(parts[1]), Some(parts[2]), Some(parts[3]))
        ELSE ValueError

parse_spec_name_string(name) ==
    LET parts == split(name)
    IN  IF Len(parts) = 1 THEN Parsed(None, None, Some(parts[1]))
        ELSE IF Len(parts) = 2 THEN Parsed(None, Some(parts[1]), Some(parts[2]))
        ELSE IF Len(parts) = 3 THEN Parsed(Some(parts[1]), Some(parts[2]), Some(parts[3]))
        ELSE ValueError

(***************************************************************************)
(* The classification properties.                                          *)
(***************************************************************************)
has_package(n) == ~IsNone(n.package)
has_spec(n) == ~IsNone(n.spec)
has_metric(n) == ~IsNone(n.metric)

is_spec(n) == has_spec(n)
is_metric(n) == has_metric(n) /\ ~has_spec(n)
\* is_package that looks at the package attribute alone
is_package_loose(n) == has_package(n)
is_package(n) == has_package(n) /\ ~is_metric(n) /\ ~is_spec(n)

has_relative(n) == is_spec(n) /\ has_metric(n)

\* is_fq that takes every metric name for fully qualified
is_fq_any_metric(n) ==
    IF is_package(n) THEN TRUE
    ELSE IF is_metric(n) THEN TRUE
    ELSE IF is_spec(n) /\ has_package(n) /\ has_metric(n) THEN TRUE
    ELSE FALSE

is_fq(n) ==
    IF is_package(n) THEN TRUE
    ELSE IF is_metric(n) /\ has_package(n) THEN TRUE
    ELSE IF is_spec(n) /\ has_package(n) /\ has_metric(n) THEN TRUE
    ELSE FALSE

is_relative(n) == is_spec(n) /\ has_metric(n) /\ ~has_package(n)

(***************************************************************************)
(* Name.__init__.  self is the object under construction together with the *)
(* exception raised so far: err = "none" while no raise has happened, else *)
(* the raise statement reached ("parse", "type", "conflict", "gap"; all    *)
(* are TypeError in the code).                                             *)
(***************************************************************************)
Raise(self, e) == [self EXCEPT !.err = e]

init_new_package_info(self, package) ==
    IF IsNone(package) THEN self
    ELSE IF IsNone(self.package) \/ package = self.package
         THEN [self EXCEPT !.package = package]
         ELSE Raise(self, "conflict")

\* new metric information that overwrites without comparing
init_new_metric_info_unchecked(self, metric) ==
    IF IsNone(metric) THEN self ELSE [self EXCEPT !.metric = metric]

init_new_metric_info(self, metric) ==
    IF IsNone(metric) THEN self
    ELSE IF IsNone(self.metric) \/ metric = self.metric
         THEN [self EXCEPT !.metric = metric]
         ELSE Raise(self, "conflict")

init_new_spec_info(self, spec) ==
    IF IsNone(spec) THEN self
    ELSE IF IsNone(self.spec) \/ spec = self.spec
         THEN [self EXCEPT !.spec = spec]
         ELSE Raise(self, "conflict")

\* the three calls that follow the metric and the spec branch; a raise
\* skips the rest
init_new_info(self, package, metric, spec) ==
    LET s1 == init_new_package_info(self, package)
        s2 == IF s1.err = "none" THEN init_new_metric_info(s1, metric) ELSE s1
    IN  IF s2.err = "none" THEN init_new_spec_info(s2, spec) ELSE s2

\* the package branch with the check the metric and spec branches make
package_branch_checked(self, package) ==
    IF package.kind = "none" THEN self
    ELSE IF package.kind = "name"
         THEN IF ~has_package(package.name) THEN Raise(self, "type")
              ELSE [self EXCEPT !.package = package.name.package,
                                !.metric = package.name.metric,
                                !.spec = package.name.spec]
         ELSE LET p == parse_fqn_string(package.str)
              IN  IF p.ok
                  THEN [self EXCEPT !.package = p.package, !.metric = p.metric,
                                    !.spec = p.spec]
                  ELSE Raise(self, "parse")

package_branch(self, package) ==
    IF package.kind = "none" THEN self
    ELSE IF package.kind = "name"
         THEN [self EXCEPT !.package = package.name.package,
                           !.metric = package.name.metric,
                           !.spec = package.name.spec]
         ELSE LET p == parse_fqn_string(package.str)
              IN  IF p.ok
                  THEN [self EXCEPT !.package = p.package, !.metric = p.metric,
                                    !.spec = p.spec]
                  ELSE Raise(self, "parse")

metric_branch(self, metric) ==
    IF metric.kind = "none" THEN self
    ELSE IF metric.kind = "name"
         THEN IF ~has_metric(metric.name) THEN Raise(self, "type")
              ELSE init_new_info(self, metric.name.package, metric.name.metric,
                                 metric.name.spec)
         ELSE LET p == parse_metric_name_string(metric.str)
              IN  IF p.ok THEN init_new_info(self, p.package, p.metric, None)
                  ELSE Raise(self, "parse")

spec_branch(self, spec) ==
    IF spec.kind = "none" THEN self
    ELSE IF spec.kind = "name"
         THEN IF ~has_spec(spec.name) THEN Raise(self, "type")
              ELSE init_new_info(self, spec.name.package, spec.name.metric,
                                 spec.name.spec)
         ELSE LET p == parse_spec_name_string(spec.str)
              IN  IF p.ok THEN init_new_info(self, p.package, p.metric, p.spec)
                  ELSE Raise(self, "parse")

\* the constructor without its closing check
metric_gap_check_skipped(self) == self

\* "Ensure the name doesn't have a metric gap"
metric_gap_check(self) ==
    IF ~IsNone(self.package) /\ ~IsNone(self.spec) /\ IsNone(self.metric)
    THEN Raise(self, "gap")
    ELSE self

\* the metric branch, reached when the package branch has not raised
after_package(s1, metric) ==
    IF s1.err = "none" THEN metric_branch(s1, metric) ELSE s1
\* the spec branch, reached when nothing has raised
after_metric(s2, spec) ==
    IF s2.err = "none" THEN spec_branch(s2, spec) ELSE s2
\* the closing check, reached when nothing has raised
after_spec(s3) ==
    IF s3.err = "none" THEN metric_gap_check(s3) ELSE s3
\* the exception, or the object returned.  No object reaches the caller
\* when __init__ raises.
init_outcome(s4) ==
    IF s4.err = "none"
    THEN [err |-> "none",
          name |-> [package |-> s4.package, metric |-> s4.metric, spec |-> s4.spec]]
    ELSE [err |-> s4.err, name |-> EmptyName]

\* Name(package, metric, spec)
NameInit(package, metric, spec) ==
    init_outcome(after_spec(after_metric(
        after_package(package_branch([err |-> "none", package |-> None, metric |-> None,
                                      spec |-> None], package), metric), spec)))

(***************************************************************************)
(* Equality, hashing, containment and rendering of a Name.                 *)
(***************************************************************************)
name_eq(self, other) ==
    self.package = other.package /\ self.metric = other.metric /\ self.spec = other.spec

\* hash((package, metric, spec)): the tuple the builtin hash is applied to
name_hash(self) == << self.package, self.metric, self.spec >>

\* containment whose package branch does not look at the kind of `name`
contains_any_kind(self, name) ==
    IF is_package(self) THEN self.package = name.package
    ELSE IF is_metric(self)
    THEN IF is_metric(name) THEN FALSE
         ELSE LET c1 == IF has_package(self) \/ has_package(name)
                        THEN self.package = name.package
                        ELSE TRUE
              IN  c1 /\ self.metric = name.metric
    ELSE FALSE

\* Name.__contains__: `name in self`
contains(self, name) ==
    IF is_package(self)
    THEN IF is_package(name) THEN FALSE
         ELSE self.package = name.package
    ELSE IF is_metric(self)
    THEN IF is_metric(name) THEN FALSE
         ELSE LET c1 == IF has_package(self) \/ has_package(name)
                        THEN self.package = name.package
                        ELSE TRUE
              IN  c1 /\ self.metric = name.metric
    ELSE FALSE

\* a rendering that drops the metric of a relative specification name
str_bare_spec(n) ==
    IF is_package(n) THEN Val(n.package)
    ELSE IF is_metric(n) /\ ~is_fq(n) THEN Val(n.metric)
    ELSE IF is_metric(n) /\ is_fq(n) THEN format2(n.package, n.metric)
    ELSE IF is_spec(n) /\ ~is_fq(n) THEN Val(n.spec)
    ELSE format3(n.package, n.metric, n.spec)

\* Name.__str__
str(n) ==
    IF is_package(n) THEN Val(n.package)
    ELSE IF is_metric(n) /\ ~is_fq(n) THEN Val(n.metric)
    ELSE IF is_metric(n) /\ is_fq(n) THEN format2(n.package, n.metric)
    ELSE IF is_spec(n) /\ ~is_fq(n) /\ ~is_relative(n) THEN Val(n.spec)
    ELSE IF is_spec(n) /\ ~is_fq(n) /\ is_relative(n)
         THEN format2(n.metric, n.spec)
    ELSE format3(n.package, n.metric, n.spec)

\* a property that returns a str or raises AttributeError
Returned(s) == [ok |-> TRUE, val |-> s]
AttributeError == [ok |-> FALSE, val |-> << >>]

fqn(n) == IF is_fq(n) THEN Returned(str(n)) ELSE AttributeError

relative_name(n) ==
    IF has_relative(n) THEN Returned(format2(n.metric, n.spec))
    ELSE AttributeError

(***************************************************************************)
(* The caller of the Name class: it holds at most one Name object (held),  *)
(* calls the constructor with arguments made of strings and of that        *)
(* object, reads the properties of the object returned, tests it for       *)
(* containment in the held one, and keeps or drops it.                     *)
(***************************************************************************)
NoHeld == [has |-> FALSE, name |-> EmptyName]
NoArgs == [package |-> NoArg, metric |-> NoArg, spec |-> NoArg]
NoResult == [err |-> "nocall", name |-> EmptyName]
NoOut == [op |-> "none", is_package |-> FALSE, is_metric |-> FALSE, is_spec |-> FALSE,
          is_fq |-> FALSE, str |-> << >>, fqn |-> AttributeError,
          relative_name |-> AttributeError, contains |-> FALSE]

ArgValues ==
    {NoArg} \cup {StrArg(s) : s \in Strings}
            \cup (IF held.has THEN {NameArg(held.name)} ELSE {})

Construct(package, metric, spec) ==
    /\ pc = "idle"
    /\ Len(package.str) + Len(metric.str) + Len(spec.str) <= MaxLen
    /\ pc' = "called"
    /\ args' = [package |-> package, metric |-> metric, spec |-> spec]
    /\ result' = NameInit(package, metric, spec)
    /\ UNCHANGED <<held, out>>
    /\ UNCHANGED <<blobVars, metricVars, jobVars, algebraVars>>

\* Name(package, metric, spec) with any arguments at hand
Call ==
    /\ pc = "idle"
    /\ \E package \in ArgValues, metric \in ArgValues, spec \in ArgValues :
          Construct(package, metric, spec)

\* read the properties of the object just returned
Inspect ==
    /\ pc = "called"
    /\ result.err = "none"
    /\ pc' = "inspected"
    /\ out' = [op |-> "inspect",
               is_package |-> is_package(result.name),
               is_metric |-> is_metric(result.name),
               is_spec |-> is_spec(result.name),
               is_fq |-> is_fq(result.name),
               str |-> str(result.name),
               fqn |-> fqn(result.name),
               relative_name |-> relative_name(result.name),
               contains |-> FALSE]
    /\ UNCHANGED <<held, args, result>>
    /\ UNCHANGED <<blobVars, metricVars, jobVars, algebraVars>>

\* `result in held`
Contains ==
    /\ pc = "called"
    /\ result.err = "none"
    /\ held.has
    /\ pc' = "compared"
    /\ out' = [NoOut EXCEPT !.op = "contains",
                            !.contains = contains(held.name, result.name)]
    /\ UNCHANGED <<held, args, result>>
    /\ UNCHANGED <<blobVars, metricVars, jobVars, algebraVars>>

Keep ==
    /\ pc \in {"called", "inspected", "compared"}
    /\ result.err = "none"
    /\ pc' = "idle"
    /\ held' = [has |-> TRUE, name |-> result.name]
    /\ args' = NoArgs
    /\ result' = NoResult
    /\ out' = NoOut
    /\ UNCHANGED <<blobVars, metricVars, jobVars, algebraVars>>

Drop ==
    /\ pc \in {"called", "inspected", "compared"}
    /\ pc' = "idle"
    /\ args' = NoArgs
    /\ result' = NoResult
    /\ out' = NoOut
    /\ UNCHANGED held
    /\ UNCHANGED <<blobVars, metricVars, jobVars, algebraVars>>

(***************************************************************************)
(* Blob (blob.py).  The caller holds Blob objects in the variables of      *)
(* Slots.  uuid.uuid4().hex is a fresh identifier: the next unused number. *)
(* An exception is recorded in lastOp.err by the name of its class.        *)
(***************************************************************************)
\* uuid4 calls made in one run
MaxIds == 3

Slots == {"x", "y"}
Keys == {"k1", "k2"}
BlobNames == {"n1", "n2"}

\* Datum objects (datum.py): value, unit, label, description
Datums == {[value |-> "1", unit |-> "mag", label |-> "l1", description |-> "d1"],
           [value |-> "2", unit |-> "", label |-> "l2", description |-> "d2"]}

\* a Python value in a typed slot: of the expected type (ok) or not
Typed(v) == [ok |-> TRUE, v |-> v]
Untyped == [ok |-> FALSE, v |-> "1"]

KeyArgs == {Typed(k) : k \in Keys} \cup {Untyped}
ValueArgs == {Typed(d) : d \in Datums} \cup {Untyped}
BlobNameArgs == {Typed(n) : n \in BlobNames} \cup {Untyped}

EmptyDict == [k \in {} |-> Untyped]
DictSet(d, k, v) == [x \in (DOMAIN d) \cup {k} |-> IF x = k THEN v ELSE d[x]]
DictDel(d, k) == [x \in (DOMAIN d) \ {k} |-> d[x]]
\* the keyword arguments **datums: str keys, any values
Kwargs == UNION {[K -> ValueArgs] : K \in SUBSET Keys}

NoBlob == [live |-> FALSE, identifier |-> 0, name |-> "", datums |-> EmptyDict]
\* the last operation: its name, the exception it raised, the slots it was
\* applied to, whether the key and the value handed to a set were of the
\* expected types, and the outcome of a comparison
NoOp == [op |-> "none", err |-> "none", x |-> "x", y |-> "x", eq |-> FALSE,
         hasheq |-> FALSE, keyok |-> TRUE, valok |-> TRUE]
Op(op, err, x) == [NoOp EXCEPT !.op = op, !.err = err, !.x = x]

\* Blob.__setitem__ on the _datums dict d: the exception and the dict
setitem(d, key, value) ==
    IF ~key.ok THEN [err |-> "KeyError", datums |-> d]
    ELSE IF ~value.ok THEN [err |-> "TypeError", datums |-> d]
    ELSE [err |-> "none", datums |-> DictSet(d, key.v, value.v)]

\* Blob.__delitem__
delitem(d, key) ==
    IF key.ok /\ key.v \in DOMAIN d
    THEN [err |-> "none", datums |-> DictDel(d, key.v)]
    ELSE [err |-> "KeyError", datums |-> d]

\* the loop of Blob.__init__: self[key] = datum for each keyword argument;
\* the first exception ends it (the order of the items does not change
\* which class is raised: a keyword is always a str)
RECURSIVE setitems(_, _, _)
setitems(d, kw, todo) ==
    IF todo = {} THEN [err |-> "none", datums |-> d]
    ELSE LET k == CHOOSE k \in todo : TRUE
             r == setitem(d, Typed(k), kw[k])
         IN  IF r.err # "none" THEN r
             ELSE setitems(r.datums, kw, todo \ {k})

\* Blob.__init__(name, **datums) with the identifier id minted for it
blob_init(id, name, kw) ==
    IF ~name.ok THEN [err |-> "TypeError", blob |-> NoBlob]
    ELSE LET r == setitems(EmptyDict, kw, DOMAIN kw)
         IN  IF r.err # "none" THEN [err |-> r.err, blob |-> NoBlob]
             ELSE [err |-> "none",
                   blob |-> [live |-> TRUE, identifier |-> id, name |-> name.v,
                             datums |-> r.datums]]

\* Blob.__eq__ and Blob.__hash__; py_hash is the builtin hash, uninterpreted
py_hash(v) == << "hash", v >>
\* equality by content instead of by identifier
blob_eq_by_content(self, other) ==
    other.name = self.name /\ other.datums = self.datums
blob_eq(self, other) == other.identifier = self.identifier
blob_hash(self) == py_hash(self.identifier)

\* Datum.json and Datum.from_json
datum_json(d) == << d.value, d.unit, d.label, d.description >>
datum_from_json(j) == [value |-> j[1], unit |-> j[2], label |-> j[3],
                       description |-> j[4]]

\* JsonSerializationMixin.jsonify_dict on the _datums dict
jsonify_dict(d) == [k \in DOMAIN d |-> datum_json(d[k])]

\* Blob.json
blob_json(self) ==
    [identifier |-> self.identifier, name |-> self.name,
     data |-> jsonify_dict(self.datums)]

\* from_json that keeps the identifier minted by cls(...)
blob_from_json_fresh(id, json_data) ==
    LET datums == [k \in DOMAIN json_data.data |->
                       Typed(datum_from_json(json_data.data[k]))]
    IN  blob_init(id, Typed(json_data.name), datums)
\* Blob.from_json(json_data) with the identifier id minted by cls(...)
blob_from_json(id, json_data) ==
    LET datums == [k \in DOMAIN json_data.data |->
                       Typed(datum_from_json(json_data.data[k]))]
        r == blob_init(id, Typed(json_data.name), datums)
    IN  IF r.err # "none" THEN r
        ELSE [r EXCEPT !.blob.identifier = json_data.identifier]

\* x = Blob(name, **kw)
NewBlob(x, name, kw) ==
    /\ nextId <= MaxIds
    /\ LET r == blob_init(nextId, name, kw)
       IN  /\ blobs' = IF r.err = "none" THEN [blobs EXCEPT ![x] = r.blob] ELSE blobs
           /\ lastOp' = Op("new", r.err, x)
    /\ nextId' = nextId + 1
    /\ UNCHANGED <<nameVars, metricVars, jobVars, algebraVars>>

\* x[key] = value
SetItem(x, key, value) ==
    /\ blobs[x].live
    /\ LET r == setitem(blobs[x].datums, key, value)
       IN  /\ blobs' = [blobs EXCEPT ![x].datums = r.datums]
           /\ lastOp' = [Op("set", r.err, x) EXCEPT !.keyok = key.ok,
                                                    !.valok = value.ok]
    /\ UNCHANGED nextId
    /\ UNCHANGED <<nameVars, metricVars, jobVars, algebraVars>>

\* del x[key]
DelItem(x, key) ==
    /\ blobs[x].live
    /\ LET r == delitem(blobs[x].datums, key)
       IN  /\ blobs' = [blobs EXCEPT ![x].datums = r.datums]
           /\ lastOp' = Op("del", r.err, x)
    /\ UNCHANGED nextId
    /\ UNCHANGED <<nameVars, metricVars, jobVars, algebraVars>>

\* y = Blob.from_json(x.json)
FromJson(x, y) ==
    /\ blobs[x].live
    /\ nextId <= MaxIds
    /\ LET r == blob_from_json(nextId, blob_json(blobs[x]))
       IN  /\ blobs' = IF r.err = "none" THEN [blobs EXCEPT ![y] = r.blob] ELSE blobs
           /\ lastOp' = [Op("from_json", r.err, x) EXCEPT !.y = y]
    /\ nextId' = nextId + 1
    /\ UNCHANGED <<nameVars, metricVars, jobVars, algebraVars>>

\* x == y and hash(x) == hash(y)
Compare(x, y) ==
    /\ blobs[x].live
    /\ blobs[y].live
    /\ lastOp' = [Op("compare", "none", x) EXCEPT
                      !.y = y,
                      !.eq = blob_eq(blobs[x], blobs[y]),
                      !.hasheq = blob_hash(blobs[x]) = blob_hash(blobs[y])]
    /\ UNCHANGED <<blobs, nextId>>
    /\ UNCHANGED <<nameVars, metricVars, jobVars, algebraVars>>

(***************************************************************************)
(* Metric (metric.py).  A unit is the string astropy parses it from; the   *)
(* strings drawn are valid units, and two of them are equivalent iff they  *)
(* measure the same physical type.  The caller holds at most one Metric    *)
(* (mheld) besides the one its last call returned (mcall.metric).          *)
(***************************************************************************)
UnitStrs == {"arcsec", "arcmin", "mag"}
\* the physical type astropy gives a unit
PhysicalType(unit) == IF unit = "mag" THEN "magnitude" ELSE "angle"
\* astropy.units.UnitBase.is_equivalent
is_equivalent(unit, other) == PhysicalType(unit) = PhysicalType(other)

NL == "\n"
RECURSIVE rstrip(_)
\* str.rstrip('\n')
rstrip(s) ==
    IF s # << >> /\ s[Len(s)] = NL THEN rstrip(SubSeq(s, 1, Len(s) - 1)) ELSE s

\* the digits of format(page, 'd')
DigitChars == << "0", "1", "2", "3", "4", "5", "6", "7", "8", "9" >>
RECURSIVE format_d(_)
format_d(n) ==
    IF n < 10 THEN << DigitChars[n + 1] >>
    ELSE format_d(n \div 10) \o << DigitChars[(n % 10) + 1] >>

\* the arguments a caller hands to Metric.deserialize
MetricNameArgs == {StrArg(<< "a" >>), StrArg(<< "a", ".", "a" >>),
                   StrArg(<< "a", ".", "a", ".", "a" >>)}
DescriptionArgs == {None, Some(<< "d" >>), Some(<< "d", NL >>),
                    Some(<< "e", NL, NL >>)}
RefValue(k) == IF k = "doc" THEN << "D" >> ELSE IF k = "page" THEN 1 ELSE << "u" >>
\* reference: None, or a dict with any of the keys doc, page, url
ReferenceArgs ==
    {None} \cup {Some([k \in K |-> Some(RefValue(k))]) : K \in SUBSET {"doc", "page", "url"}}

NoMetric == [name |-> EmptyName, description |-> << >>, unit |-> "",
             tags |-> << >>, reference_doc |-> None, reference_url |-> None,
             reference_page |-> None]

\* the assignments of Metric.__init__, n being what the name setter got
\* from Name(metric=value)
metric_assign(n, description, unit, tags, reference_doc, reference_url, reference_page) ==
    IF n.err # "none" THEN [err |-> "TypeError", metric |-> NoMetric]
    ELSE [err |-> "none",
          metric |-> [name |-> n.name,
                      description |-> description,
                      unit |-> unit,
                      tags |-> IF IsNone(tags) THEN << >> ELSE Val(tags),
                      reference_doc |-> reference_doc,
                      reference_url |-> reference_url,
                      reference_page |-> reference_page]]

\* Metric.__init__
metric_init(name, description, unit, tags, reference_doc, reference_url, reference_page) ==
    metric_assign(NameInit(NoArg, name, NoArg), description, unit, tags,
                  reference_doc, reference_url, reference_page)

\* dict.get(key, None)
get(d, k) == IF k \in DOMAIN d THEN d[k] ELSE None

\* Metric.deserialize(name, description, unit, tags, reference=ref): tags is
\* accepted and not handed to cls(name, **args)
deserialize(name, description, unit, tags, ref) ==
    IF IsNone(description) THEN [err |-> "AttributeError", metric |-> NoMetric]
    ELSE metric_init(name, rstrip(Val(description)), unit, None,
                     IF IsNone(ref) THEN None ELSE get(Val(ref), "doc"),
                     IF IsNone(ref) THEN None ELSE get(Val(ref), "url"),
                     IF IsNone(ref) THEN None ELSE get(Val(ref), "page"))

\* Metric.reference: the text made of doc, page and url
reference(self) ==
    LET doc == self.reference_doc
        page == self.reference_page
        url == self.reference_url
        hasdoc == ~IsNone(doc) /\ Val(doc) # << >>
        haspage == ~IsNone(page) /\ Val(page) # 0
        hasurl == ~IsNone(url) /\ Val(url) # << >>
        ref1 == IF hasdoc /\ haspage
                THEN Val(doc) \o << ",", " ", "p", ".", " " >> \o format_d(Val(page))
                ELSE IF hasdoc THEN Val(doc) ELSE << >>
    IN  IF hasurl /\ hasdoc THEN ref1 \o << ",", " " >> \o Val(url)
        ELSE IF hasurl THEN Val(url)
        ELSE ref1

\* Metric.__eq__: unit and description are compared with themselves
metric_eq(self, other) ==
    /\ name_eq(self.name, other.name)
    /\ self.unit = self.unit
    /\ self.description = self.description
    /\ reference(self) = reference(other)

\* a unit check that lets every quantity through
check_unit_any(self, quantity) == TRUE
\* Metric.check_unit(quantity)
check_unit(self, quantity) ==
    IF ~is_equivalent(quantity.unit, self.unit) THEN FALSE ELSE TRUE

\* the last construction of a Metric: its arguments and its outcome r, the
\* exception raised (err) and the Metric returned
MetricCall(op, name, description, unit, tags, ref, r) ==
    [op |-> op, name |-> name, description |-> description, unit |-> unit,
     tags |-> tags, reference |-> ref, err |-> r.err, metric |-> r.metric]
NoMetricCall == MetricCall("none", NoArg, None, "", None, None,
                           [err |-> "none", metric |-> NoMetric])

\* Metric.deserialize(name=..., description=..., unit=..., tags=...,
\* reference=...)
Deserialize(name, description, unit, tags, ref) ==
    /\ mpc = "idle"
    /\ mcall' = MetricCall("deserialize", name, description, unit, tags, ref,
                           deserialize(name, description, unit, tags, ref))
    /\ mpc' = "made"
    /\ UNCHANGED <<mheld, mset, meas, mout>>
    /\ UNCHANGED <<nameVars, blobVars, jobVars, algebraVars>>

\* a quantity: a number with its unit
NoQuantity == [value |-> 0, unit |-> ""]
QuantityArgs == {[value |-> 5, unit |-> unit] : unit \in UnitStrs}

\* the last operation on Metrics, the MetricSet or the Measurement: its
\* arguments, the exception raised, and what it returned
NoMetricOut == [op |-> "none", key |-> NoArg, value |-> NoQuantity,
                items |-> << >>, err |-> "none", metric |-> NoMetric,
                flag |-> FALSE, doc |-> EmptyDict]
\* the record of the operation op on key and value with the outcome r
MetricOut(op, key, value, r) ==
    [NoMetricOut EXCEPT !.op = op, !.key = key, !.value = value,
                        !.err = r.err,
                        !.metric = IF "metric" \in DOMAIN r THEN r.metric ELSE NoMetric,
                        !.flag = IF "flag" \in DOMAIN r THEN r.flag ELSE FALSE,
                        !.doc = IF "doc" \in DOMAIN r THEN r.doc ELSE EmptyDict]

\* held == fresh, fresh being the Metric the last call returned
EqMetric ==
    /\ mpc = "made"
    /\ mcall.err = "none"
    /\ mheld.has
    /\ mout' = [NoMetricOut EXCEPT !.op = "eq",
                                   !.flag = metric_eq(mheld.metric, mcall.metric)]
    /\ mpc' = "compared"
    /\ UNCHANGED <<mheld, mcall, mset, meas>>
    /\ UNCHANGED <<nameVars, blobVars, jobVars, algebraVars>>

\* the caller keeps the Metric returned in place of the held one
KeepMetric ==
    /\ mpc \in {"made", "compared"}
    /\ mcall.err = "none"
    /\ mheld' = [has |-> TRUE, metric |-> mcall.metric]
    /\ mcall' = NoMetricCall
    /\ mout' = NoMetricOut
    /\ mpc' = "idle"
    /\ UNCHANGED <<mset, meas>>
    /\ UNCHANGED <<nameVars, blobVars, jobVars, algebraVars>>

\* the caller lets go of what the last call returned or raised
DropMetric ==
    /\ mpc \in {"made", "compared"}
    /\ mcall' = NoMetricCall
    /\ mout' = NoMetricOut
    /\ mpc' = "idle"
    /\ UNCHANGED <<mheld, mset, meas>>
    /\ UNCHANGED <<nameVars, blobVars, jobVars, algebraVars>>

(***************************************************************************)
(* MetricSet (metric.py): the dict _metrics, from Name to Metric.           *)
(***************************************************************************)
\* the Metrics handed to MetricSet(metrics) in one call
MaxMetrics == 2

NoMetricSet == [has |-> FALSE, metrics |-> EmptyDict]

RECURSIVE metricset_fill(_, _)
\* the loop of MetricSet.__init__ over the rest of the sequence
metricset_fill(d, metrics) ==
    IF metrics = << >> THEN [err |-> "none", metrics |-> d]
    ELSE LET metric == Head(metrics)
         IN  IF ~metric.ok THEN [err |-> "TypeError", metrics |-> EmptyDict]
             ELSE metricset_fill(DictSet(d, metric.v.name, metric.v), Tail(metrics))

\* MetricSet.__init__(metrics)
metricset_init(metrics) == metricset_fill(EmptyDict, metrics)

\* the key of __getitem__ and __contains__: a Name, or Name(metric=key)
coerce_key(key) ==
    IF key.kind = "name" THEN [err |-> "none", name |-> key.name]
    ELSE NameInit(NoArg, key, NoArg)

\* self._metrics[key], key being what the coercion gave
dict_getitem(d, k) ==
    IF k.err # "none" THEN [err |-> "TypeError", metric |-> NoMetric]
    ELSE IF k.name \in DOMAIN d THEN [err |-> "none", metric |-> d[k.name]]
    ELSE [err |-> "KeyError", metric |-> NoMetric]
\* a lookup that takes a str key as it is
metricset_getitem_uncoerced(d, key) ==
    IF key.kind = "name" /\ key.name \in DOMAIN d
    THEN [err |-> "none", metric |-> d[key.name]]
    ELSE [err |-> "KeyError", metric |-> NoMetric]
\* MetricSet.__getitem__(key)
metricset_getitem(d, key) == dict_getitem(d, coerce_key(key))

\* key in self._metrics
dict_contains(d, k) ==
    IF k.err # "none" THEN [err |-> "TypeError", flag |-> FALSE]
    ELSE [err |-> "none", flag |-> k.name \in DOMAIN d]
\* MetricSet.__contains__(key)
metricset_contains(d, key) == dict_contains(d, coerce_key(key))

\* the Names a caller has at hand as keys
LookupKeys ==
    MetricNameArgs
    \cup {NameArg(r.name) : r \in {q \in {NameInit(p, m, NoArg) :
                                             p \in {NoArg, StrArg(<< "a" >>)},
                                             m \in {NoArg, StrArg(<< "a" >>)}} :
                                       q.err = "none"}}

\* what the caller can put in the sequence: its Metrics, and something else
MetricItems ==
    (IF mheld.has THEN {Typed(mheld.metric)} ELSE {})
    \cup (IF mpc = "made" /\ mcall.err = "none" THEN {Typed(mcall.metric)} ELSE {})
    \cup {Untyped}

\* mset = MetricSet(metrics)
BuildSet(metrics) ==
    /\ mpc \in {"idle", "made"}
    /\ LET r == metricset_init(metrics)
       IN  /\ mset' = IF r.err = "none"
                      THEN [has |-> TRUE, metrics |-> r.metrics] ELSE mset
           /\ mout' = [NoMetricOut EXCEPT !.op = "metricset", !.items = metrics,
                                          !.err = r.err]
    /\ mpc' = "asked"
    /\ mcall' = NoMetricCall
    /\ UNCHANGED <<mheld, meas>>
    /\ UNCHANGED <<nameVars, blobVars, jobVars, algebraVars>>

\* mset[key]
Lookup(key) ==
    /\ mpc = "idle"
    /\ mset.has
    /\ mout' = MetricOut("getitem", key, NoQuantity,
                         metricset_getitem(mset.metrics, key))
    /\ mpc' = "asked"
    /\ UNCHANGED <<mheld, mcall, mset, meas>>
    /\ UNCHANGED <<nameVars, blobVars, jobVars, algebraVars>>

\* key in mset
InSet(key) ==
    /\ mpc = "idle"
    /\ mset.has
    /\ mout' = MetricOut("contains", key, NoQuantity,
                         metricset_contains(mset.metrics, key))
    /\ mpc' = "asked"
    /\ UNCHANGED <<mheld, mcall, mset, meas>>
    /\ UNCHANGED <<nameVars, blobVars, jobVars, algebraVars>>

\* the caller has read the outcome of the last operation
Ack ==
    /\ mpc = "asked"
    /\ mout' = NoMetricOut
    /\ mpc' = "idle"
    /\ UNCHANGED <<mheld, mcall, mset, meas>>
    /\ UNCHANGED <<nameVars, blobVars, jobVars, algebraVars>>

(***************************************************************************)
(* Measurement (measurement.py).  attrs are the instance attributes the    *)
(* object has been given; reading another one raises AttributeError.       *)
(***************************************************************************)
NoMeasurement == [live |-> FALSE, metric |-> NoMetric, value |-> NoQuantity,
                  identifier |-> 0, attrs |-> {}, linked_blobs |-> EmptyDict]

\* the rest of Measurement.__init__, r being what metric_set[name] gave:
\* the exception is passed on, the unit is checked, the value is stored
measurement_assign(id, r, value) ==
    IF r.err # "none" THEN [err |-> r.err, measurement |-> NoMeasurement]
    ELSE IF ~check_unit(r.metric, value)
    THEN [err |-> "UnitTypeError", measurement |-> NoMeasurement]
    ELSE [err |-> "none",
          measurement |-> [live |-> TRUE, metric |-> r.metric,
                           value |-> value, identifier |-> id,
                           attrs |-> {"_metric", "value", "_id"},
                           linked_blobs |-> EmptyDict]]

\* Measurement.__init__(name, value, metric_set) with the identifier id
\* minted for it; metric_set.has = FALSE is metric_set=None
measurement_init(id, name, value, metric_set) ==
    IF ~metric_set.has
    THEN [err |-> "NotImplementedError", measurement |-> NoMeasurement]
    ELSE measurement_assign(id, metricset_getitem(metric_set.metrics, name),
                            value)

\* Measurement.json: _linked_blobs is read, and is set by no code
measurement_json(self) ==
    IF "_linked_blobs" \notin self.attrs
    THEN [err |-> "AttributeError", doc |-> EmptyDict]
    ELSE [err |-> "none",
          doc |-> [identifier |-> self.identifier,
                   value |-> self.value.value,
                   unit |-> self.value.unit,
                   blobs |-> [k \in DOMAIN self.linked_blobs |->
                                  self.linked_blobs[k].identifier]]]

\* meas = Measurement(name, value, metric_set=mset)
NewMeasurement(name, value) ==
    /\ mpc = "idle"
    /\ nextId <= MaxIds
    /\ mout' = MetricOut("measurement", name, value,
                         measurement_init(nextId, name, value, mset))
    /\ meas' = IF mout'.err = "none"
               THEN measurement_init(nextId, name, value, mset).measurement
               ELSE meas
    /\ nextId' = IF mout'.err = "none" THEN nextId + 1 ELSE nextId
    /\ mpc' = "asked"
    /\ UNCHANGED <<mheld, mcall, mset>>
    /\ UNCHANGED <<nameVars, blobs, lastOp, jobVars, algebraVars>>

\* meas.json
MeasurementJson ==
    /\ mpc = "idle"
    /\ meas.live
    /\ mout' = MetricOut("json", NoArg, NoQuantity, measurement_json(meas))
    /\ mpc' = "asked"
    /\ UNCHANGED <<mheld, mcall, mset, meas>>
    /\ UNCHANGED <<nameVars, blobVars, jobVars, algebraVars>>

(***************************************************************************)
(* Measurement.from_json (measurement.py): the measurements of one job are *)
(* read one after the other, each with the blob list of that job.          *)
(***************************************************************************)
\* the blob documents in the list of one job
MaxDocs == 2
\* the measurements read from one job
MaxCalls == 2

\* Metric.json
metric_json(self) ==
    [name |-> str(self.name), description |-> self.description,
     unit |-> self.unit,
     reference |-> [doc |-> self.reference_doc, page |-> self.reference_page,
                    url |-> self.reference_url]]

\* Metric.from_json(json_data): cls.deserialize(**json_data)
metric_from_json(json_data) ==
    deserialize(StrArg(json_data.name), Some(json_data.description),
                json_data.unit, None, Some(json_data.reference))

\* the identifiers that blob documents and references carry
DocIds == {1, 2}
\* the JSON documents of Blobs
BlobDocs ==
    {blob_json([live |-> TRUE, identifier |-> i, name |-> n, datums |-> EmptyDict]) :
         i \in DocIds, n \in BlobNames}
\* blobs_json: None, or a list of blob documents
BlobLists == {None} \cup {Some(l) : l \in SeqsUpTo(BlobDocs, MaxDocs)}
\* the blobs field of a Measurement document: key -> identifier
BlobRefs == UNION {[K -> DocIds] : K \in SUBSET Keys}
\* the Metric of the Measurement documents
MeasuredMetric ==
    metric_init(StrArg(<< "a" >>), << "d" >>, "mag", None, None, None, None).metric
\* the JSON documents of Measurements
MeasurementDocs ==
    {[metric |-> metric_json(MeasuredMetric), identifier |-> 9, value |-> 5,
      unit |-> "mag", parameters |-> EmptyDict, extras |-> EmptyDict,
      blobs |-> b] : b \in BlobRefs}

\* the positions of the documents of the list that carry the identifier id
matching(docs, id) == {i \in 1..Len(docs) : docs[i].identifier = id}
\* the last of a non-empty set of positions
last(S) == CHOOSE i \in S : \A j \in S : j <= i

\* the loops of from_json over json_data['blobs'] and blobs_json: the Blob
\* of every matching document is put under the key, so the last one stays;
\* DeserializedBlob.from_json is taken to build as Blob.from_json does
resolve_blobs(refs, blobs_json) ==
    IF IsNone(blobs_json) THEN EmptyDict
    ELSE [k \in {q \in DOMAIN refs : matching(Val(blobs_json), refs[q]) # {}} |->
              blob_from_json(0, Val(blobs_json)[last(matching(Val(blobs_json),
                                                              refs[k]))]).blob]

\* cls(**kw) for cls = Measurement: a keyword that is no parameter of
\* __init__, or a missing name or value, is a TypeError
measurement_call(id, kw) ==
    IF (DOMAIN kw) \subseteq {"name", "value", "metric_set"} /\ {"name", "value"} \subseteq DOMAIN kw
    THEN measurement_init(id, kw.name, kw.value,
                          IF "metric_set" \in DOMAIN kw THEN kw.metric_set
                          ELSE NoMetricSet)
    ELSE [err |-> "TypeError", measurement |-> NoMeasurement]

\* the call that ends from_json, metric being what Metric.from_json gave
measurement_rebuilt(id, json_data, linked_blobs, metric) ==
    IF metric.err # "none" THEN [err |-> metric.err, measurement |-> NoMeasurement]
    ELSE measurement_call(id,
             [quantity |-> [value |-> json_data.value, unit |-> json_data.unit],
              id_ |-> json_data.identifier,
              metric |-> metric.metric,
              parameters |-> [k \in DOMAIN json_data.parameters |->
                                  datum_from_json(json_data.parameters[k])],
              linked_blobs |-> linked_blobs,
              extras |-> [k \in DOMAIN json_data.extras |->
                              datum_from_json(json_data.extras[k])]])

\* Measurement.from_json(json_data, blobs_json)
measurement_from_json(id, json_data, blobs_json) ==
    measurement_rebuilt(id, json_data,
                        resolve_blobs(json_data.blobs, blobs_json),
                        metric_from_json(json_data.metric))

\* one call of from_json: its arguments and its outcome r
JobCall(json_data, blobs_json, r) ==
    [json_data |-> json_data, blobs_json |-> blobs_json, err |-> r.err,
     measurement |-> r.measurement]

\* Measurement.from_json(json_data, blobs_json)
MeasurementFromJson(json_data, blobs_json) ==
    /\ Len(jcalls) < MaxCalls
    /\ jcalls # << >> => blobs_json = jcalls[1].blobs_json
    /\ jcalls' = Append(jcalls, JobCall(json_data, blobs_json,
                            measurement_from_json(nextId, json_data, blobs_json)))
    /\ UNCHANGED <<nameVars, blobVars, metricVars, algebraVars>>

\* the caller turns to another job
NewJob ==
    /\ jcalls # << >>
    /\ jcalls' = << >>
    /\ UNCHANGED <<nameVars, blobVars, metricVars, algebraVars>>

(***************************************************************************)
(* Names side by side: the caller builds Name objects from str arguments,  *)
(* tests three of them for containment in one another, builds one name     *)
(* from its components in every form the constructor accepts, and wraps a  *)
(* Name object into a new one.                                             *)
(***************************************************************************)
\* the Name objects Name(package, metric, spec) returns for str arguments
Names ==
    {NameInit(a[1], a[2], a[3]).name :
        a \in {t \in ({NoArg} \cup {StrArg(s) : s \in Strings})
                      \X ({NoArg} \cup {StrArg(s) : s \in Strings})
                      \X ({NoArg} \cup {StrArg(s) : s \in Strings}) :
                  /\ Len(t[1].str) + Len(t[2].str) + Len(t[3].str) <= MaxLen
                  /\ NameInit(t[1], t[2], t[3]).err = "none"}}

\* the strings without a dot
Components == {c \in Strings : ~HasDot(c)}

\* Name('p.m.s'), Name(spec='p.m.s'), Name(package='p', metric='m', spec='s'),
\* Name(metric='p.m', spec='s'), Name(package='p', spec='m.s')
three_part_forms(p, m, s) ==
    << NameInit(StrArg(format3(Some(p), Some(m), Some(s))), NoArg, NoArg),
       NameInit(NoArg, NoArg, StrArg(format3(Some(p), Some(m), Some(s)))),
       NameInit(StrArg(p), StrArg(m), StrArg(s)),
       NameInit(NoArg, StrArg(format2(Some(p), Some(m))), StrArg(s)),
       NameInit(StrArg(p), NoArg, StrArg(format2(Some(m), Some(s)))) >>

\* Name('p.m'), Name(metric='p.m'), Name(package='p', metric='m')
two_part_forms(p, m) ==
    << NameInit(StrArg(format2(Some(p), Some(m))), NoArg, NoArg),
       NameInit(NoArg, StrArg(format2(Some(p), Some(m))), NoArg),
       NameInit(StrArg(p), StrArg(m), NoArg) >>

NoForms == [op |-> "none", p |-> << >>, m |-> << >>, s |-> << >>, n |-> EmptyName,
            three |-> << >>, two |-> << >>, wrapped |-> NoResult]

\* the caller takes up to three Name objects
Pick ==
    /\ trio = {}
    /\ forms = NoForms
    /\ \E a \in Names, b \in Names, c \in Names : trio' = {a, b, c}
    /\ UNCHANGED <<order, forms>>
    /\ UNCHANGED <<nameVars, blobVars, metricVars, jobVars>>

\* `y in x` for every two of them: order[x][y] is y in x
Relate ==
    /\ trio # {}
    /\ order = << >>
    /\ order' = [x \in trio |-> [y \in trio |-> contains(x, y)]]
    /\ UNCHANGED <<trio, forms>>
    /\ UNCHANGED <<nameVars, blobVars, metricVars, jobVars>>

\* the name of components p, m, s in every form of the constructor
Merge ==
    /\ trio = {}
    /\ forms = NoForms
    /\ \E p \in Components, m \in Components, s \in Components :
           forms' = [NoForms EXCEPT !.op = "merge", !.p = p, !.m = m, !.s = s,
                                    !.three = three_part_forms(p, m, s),
                                    !.two = two_part_forms(p, m)]
    /\ UNCHANGED <<trio, order>>
    /\ UNCHANGED <<nameVars, blobVars, metricVars, jobVars>>

\* Name(package=n) for a Name object n
Rewrap ==
    /\ trio = {}
    /\ forms = NoForms
    /\ \E n \in Names :
           forms' = [NoForms EXCEPT !.op = "rewrap", !.n = n,
                                    !.wrapped = NameInit(NameArg(n), NoArg, NoArg)]
    /\ UNCHANGED <<trio, order>>
    /\ UNCHANGED <<nameVars, blobVars, metricVars, jobVars>>

\* the caller lets the objects go
Release ==
    /\ trio # {} \/ forms # NoForms
    /\ trio' = {}
    /\ order' = << >>
    /\ forms' = NoForms
    /\ UNCHANGED <<nameVars, blobVars, metricVars, jobVars>>

NameInit0 ==
    /\ pc = "idle"
    /\ held = NoHeld
    /\ args = NoArgs
    /\ result = NoResult
    /\ out = NoOut

BlobInit0 ==
    /\ blobs = [x \in Slots |-> NoBlob]
    /\ nextId = 1
    /\ lastOp = NoOp

MetricInit0 ==
    /\ mpc = "idle"
    /\ mheld = [has |-> FALSE, metric |-> NoMetric]
    /\ mcall = NoMetricCall
    /\ mset = NoMetricSet
    /\ meas = NoMeasurement
    /\ mout = NoMetricOut

JobInit0 == jcalls = << >>

AlgebraInit0 ==
    /\ trio = {}
    /\ order = << >>
    /\ forms = NoForms

Init == NameInit0 /\ BlobInit0 /\ MetricInit0 /\ JobInit0 /\ AlgebraInit0

Next ==
    \/ Call
    \/ Inspect
    \/ Contains
    \/ Keep
    \/ Drop

Spec == Init /\ [][Next]_vars

NextBlob ==
    \/ \E x \in Slots, name \in BlobNameArgs, kw \in Kwargs : NewBlob(x, name, kw)
    \/ \E x \in Slots, key \in KeyArgs, value \in ValueArgs : SetItem(x, key, value)
    \/ \E x \in Slots, key \in KeyArgs : DelItem(x, key)
    \/ \E x \in Slots, y \in Slots : FromJson(x, y)
    \/ \E x \in Slots, y \in Slots : Compare(x, y)

SpecBlob == Init /\ [][NextBlob]_vars

\* Metric.deserialize with any record at hand
MakeMetric ==
    /\ mpc = "idle"
    /\ \E name \in MetricNameArgs, description \in DescriptionArgs,
          unit \in UnitStrs, tags \in {None, Some(<< "t" >>)}, ref \in ReferenceArgs :
          Deserialize(name, description, unit, tags, ref)

NextMetric ==
    \/ MakeMetric
    \/ EqMetric
    \/ KeepMetric
    \/ DropMetric

SpecMetric == Init /\ [][NextMetric]_vars

\* Metric.deserialize with a record of a name, a description and a unit
DefineMetric ==
    /\ mpc = "idle"
    /\ \E name \in MetricNameArgs, unit \in {"arcsec", "mag"} :
          Deserialize(name, Some(<< "d" >>), unit, None, None)

NextMeasurement ==
    \/ DefineMetric
    \/ KeepMetric
    \/ DropMetric
    \/ \E metrics \in SeqsUpTo(MetricItems, MaxMetrics) : BuildSet(metrics)
    \/ \E key \in LookupKeys : Lookup(key)
    \/ \E key \in LookupKeys : InSet(key)
    \/ \E name \in LookupKeys, value \in QuantityArgs : NewMeasurement(name, value)
    \/ MeasurementJson
    \/ Ack

SpecMeasurement == Init /\ [][NextMeasurement]_vars

NextJob ==
    \/ \E json_data \in MeasurementDocs, blobs_json \in BlobLists :
          MeasurementFromJson(json_data, blobs_json)
    \/ NewJob

SpecJob == Init /\ [][NextJob]_vars

NextAlgebra ==
    \/ Pick
    \/ Relate
    \/ Merge
    \/ Rewrap
    \/ Release

SpecAlgebra == Init /\ [][NextAlgebra]_vars

(***************************************************************************)
(* Vocabulary of the properties, stated on the attributes alone.           *)
(***************************************************************************)
Fields == {"package", "metric", "spec"}
Present(c) == c # << >>
Shape(n) == << Present(n.package), Present(n.metric), Present(n.spec) >>
Called == result.err # "nocall"
Returns == Called /\ result.err = "none"

\* the call Name(<field> = a), the other two arguments absent
Alone(field, a) ==
    IF field = "package" THEN NameInit(a, NoArg, NoArg)
    ELSE IF field = "metric" THEN NameInit(NoArg, a, NoArg)
    ELSE NameInit(NoArg, NoArg, a)

Given == {f \in Fields : args[f].kind # "none"}
\* every argument given is acceptable on its own
EachAcceptable == \A f \in Given : Alone(f, args[f]).err = "none"
\* the values the arguments given supply for component c
Supplied(c) == {Alone(f, args[f]).name[c] : f \in Given} \ {<< >>}
Suppliers(c) == {f \in Given : Present(Alone(f, args[f]).name[c])}

\* the last call was Name(<field> = s) for a str s
OnlyStr(field) ==
    /\ Called
    /\ args[field].kind = "str"
    /\ \A f \in Fields \ {field} : args[f].kind = "none"

NumParts(s) == 1 + Cardinality({i \in 1..Len(s) : s[i] = "."})
DotFree(c) == \A i \in 1..Len(c) : c[i] # "."
\* the components that are set, in the order package, metric, spec, are the
\* dot-separated pieces of s
Positional(n, s) ==
    LET cs == SelectSeq(<< n.package, n.metric, n.spec >>, Present)
    IN  /\ \A i \in 1..Len(cs) : DotFree(cs[i][1])
        /\ s = (IF Len(cs) = 1 THEN cs[1][1]
                ELSE IF Len(cs) = 2 THEN cs[1][1] \o << "." >> \o cs[2][1]
                ELSE cs[1][1] \o << "." >> \o cs[2][1] \o << "." >> \o cs[3][1])

\* the components a str of k parts sets, by the field it is passed as
ShapeOf(field, k) ==
    IF field = "package"
    THEN (IF k = 1 THEN << TRUE, FALSE, FALSE >>
          ELSE IF k = 2 THEN << TRUE, TRUE, FALSE >> ELSE << TRUE, TRUE, TRUE >>)
    ELSE IF field = "metric"
    THEN (IF k = 1 THEN << FALSE, TRUE, FALSE >> ELSE << TRUE, TRUE, FALSE >>)
    ELSE (IF k = 1 THEN << FALSE, FALSE, TRUE >>
          ELSE IF k = 2 THEN << FALSE, TRUE, TRUE >> ELSE << TRUE, TRUE, TRUE >>)
MaxParts(field) == IF field = "metric" THEN 2 ELSE 3

MetricGap(n) == Present(n.package) /\ Present(n.spec) /\ ~Present(n.metric)
PackageName(n) == Shape(n) = << TRUE, FALSE, FALSE >>
MetricName(n) == Present(n.metric) /\ ~Present(n.spec)
SpecName(n) == Present(n.spec)

(***************************************************************************)
(* The Name algebra.                                                       *)
(***************************************************************************)
\* C1: no Name object returned by the constructor, and none kept by the
\* caller, has a package and a spec without a metric; and a call whose
\* arguments, each acceptable alone, together supply a package and a spec
\* but no metric raises (at the metric-gap check) instead of returning.
C1_NoMetricGap ==
    /\ Returns => ~MetricGap(result.name)
    /\ held.has => ~MetricGap(held.name)
    /\ (Called /\ EachAcceptable /\ Supplied("package") # {} /\ Supplied("spec") # {}
          /\ Supplied("metric") = {})
       => result.err = "gap"

\* a call with a Name argument and a str argument that ends at the gap check
C1_Witness ==
    /\ pc = "called"
    /\ args.package.kind = "name"
    /\ args.spec.kind = "str"
    /\ result.err = "gap"

\* C2: for every Name returned with at least one component set, exactly one
\* of is_package, is_metric, is_spec is true; is_spec iff spec is set,
\* is_metric iff metric is set and spec is not, is_package iff package is
\* set and neither metric nor spec is.
C2_ExactlyOneKind ==
    (pc = "inspected" /\ result.name # EmptyName) =>
        LET n == result.name
        IN  /\ Cardinality({k \in {"is_package", "is_metric", "is_spec"} : out[k]}) = 1
            /\ out.is_spec <=> Present(n.spec)
            /\ out.is_metric <=> (Present(n.metric) /\ ~Present(n.spec))
            /\ out.is_package <=>
                  (Present(n.package) /\ ~Present(n.metric) /\ ~Present(n.spec))

\* the properties of a fully-qualified metric name have been read
C2_Witness ==
    /\ pc = "inspected"
    /\ Shape(result.name) = << TRUE, TRUE, FALSE >>
    /\ out.is_metric

\* C3: when the arguments, each acceptable alone, include two that supply a
\* value for the same component, the call returns iff for every component
\* all the values supplied are equal, and raises the conflict error iff for
\* some component two of them differ; the Name returned holds the common
\* value of every component supplied.
C3_MergeConsistency ==
    (Called /\ EachAcceptable /\ \E c \in Fields : Cardinality(Suppliers(c)) >= 2) =>
        /\ result.err = "none" <=> \A c \in Fields : Cardinality(Supplied(c)) <= 1
        /\ result.err = "conflict" <=> \E c \in Fields : Cardinality(Supplied(c)) >= 2
        /\ result.err = "none" =>
              \A c \in Fields : \A v \in Supplied(c) : result.name[c] = v

\* Name(package='p.m', metric='m'): two str arguments agree on the metric
C3_Witness ==
    /\ pc = "called"
    /\ args.package.kind = "str"
    /\ args.metric.kind = "str"
    /\ args.spec.kind = "none"
    /\ Cardinality(Suppliers("metric")) = 2
    /\ Present(result.name.package)
    /\ result.err = "none"

\* C4: a str passed alone as package, metric or spec is split on its dots
\* and its parts are assigned by position: the part count fixes which
\* components are set (package: 1, 2, 3 parts; metric: 1, 2; spec: 1, 2, 3),
\* the components set are the parts in order, and every other part count
\* raises the parse error.
C4_PositionalParse ==
    \A f \in Fields :
        OnlyStr(f) =>
            LET s == args[f].str
                k == NumParts(s)
            IN  IF k <= MaxParts(f)
                THEN /\ result.err = "none"
                     /\ Shape(result.name) = ShapeOf(f, k)
                     /\ Positional(result.name, s)
                ELSE result.err = "parse"

\* Name(spec='m.s') has returned a metric-relative specification name
C4_Witness ==
    /\ pc = "called"
    /\ OnlyStr("spec")
    /\ NumParts(args.spec.str) = 2
    /\ Shape(result.name) = << FALSE, TRUE, TRUE >>

\* C5: a Name instance passed as package, metric or spec that does not
\* carry that component is rejected with an error; one that carries it has
\* all its components in the Name returned.
C5_NameArgumentCarriesItsKind ==
    Called =>
        \A f \in Fields :
            args[f].kind = "name" =>
                IF ~Present(args[f].name[f]) THEN result.err # "none"
                ELSE result.err = "none" =>
                        \A c \in Fields :
                            Present(args[f].name[c]) => result.name[c] = args[f].name[c]

\* C6: for a metric name A (held) and any Name B, `B in A` is true iff B is
\* not a metric name, B.metric = A.metric, and the packages are equal
\* whenever both A and B have one.
C6_MetricContainment ==
    (pc = "compared" /\ MetricName(held.name)) =>
        LET A == held.name
            B == result.name
        IN  out.contains <=>
               /\ ~MetricName(B)
               /\ B.metric = A.metric
               /\ (Present(A.package) /\ Present(B.package)) => B.package = A.package

\* C7: for a package name A (held) and any Name B, `B in A` is true iff B
\* is not a package name and B.package = A.package; for a specification
\* name A, `B in A` is false.
C7_PackageContainment ==
    pc = "compared" =>
        LET A == held.name
            B == result.name
        IN  /\ PackageName(A) => (out.contains <=> (~PackageName(B) /\ B.package = A.package))
            /\ SpecName(A) => ~out.contains

\* a specification name has been found in its package
C7_Witness ==
    /\ pc = "compared"
    /\ PackageName(held.name)
    /\ SpecName(result.name)
    /\ out.contains

\* C8: str(Name(<field> = s)) = s for every str s the field accepts.
C8_StrRoundTrip ==
    \A f \in Fields :
        (pc = "inspected" /\ OnlyStr(f)) => out.str = args[f].str

\* the rendering of Name(spec='m.s') has been read
C8_Witness ==
    /\ pc = "inspected"
    /\ OnlyStr("spec")
    /\ NumParts(args.spec.str) = 2
    /\ Len(out.str) = 3

\* C9: fqn returns str(N) exactly when N is a package alone, a package and
\* a metric, or a package, a metric and a spec, and raises otherwise;
\* relative_name returns 'metric.spec' exactly when N has a metric and a
\* spec, and raises otherwise.
C9_FqnAndRelativeName ==
    pc = "inspected" =>
        LET n == result.name
        IN  /\ out.fqn.ok <=> Shape(n) \in {<< TRUE, FALSE, FALSE >>, << TRUE, TRUE, FALSE >>,
                                            << TRUE, TRUE, TRUE >>}
            /\ out.fqn.ok => (out.fqn.val = out.str /\ Positional(n, out.fqn.val))
            /\ out.is_fq <=> out.fqn.ok
            /\ out.relative_name.ok <=> (Present(n.metric) /\ Present(n.spec))
            /\ out.relative_name.ok =>
                  out.relative_name.val = n.metric[1] \o << "." >> \o n.spec[1]

\* a relative specification name: fqn raises, relative_name returns
C9_Witness ==
    /\ pc = "inspected"
    /\ Shape(result.name) = << FALSE, TRUE, TRUE >>
    /\ ~out.fqn.ok
    /\ out.relative_name.ok

(***************************************************************************)
(* Blob.                                                                   *)
(***************************************************************************)
\* C10: a set or a delete leaves the identifier of every Blob as it was,
\* and whenever two Blobs are compared they are equal, and their hashes are
\* equal, iff their identifiers are equal, whatever their names and data.
C10_IdentityByIdentifier ==
    [][ /\ lastOp'.op \in {"set", "del"} =>
              \A x \in Slots : blobs'[x].live = blobs[x].live
                               /\ blobs'[x].identifier = blobs[x].identifier
        /\ lastOp'.op = "compare" =>
              LET same == blobs'[lastOp'.x].identifier = blobs'[lastOp'.y].identifier
              IN  (lastOp'.eq <=> same) /\ (lastOp'.hasheq <=> same) ]_vars

\* two Blobs with one identifier and different data have compared equal
C10_Witness ==
    /\ lastOp.op = "compare"
    /\ lastOp.x # lastOp.y
    /\ lastOp.eq
    /\ blobs[lastOp.x].datums # blobs[lastOp.y].datums

C12_SetRejectsWithTypeError ==
    [][ (lastOp'.op = "set" /\ (~lastOp'.keyok \/ ~lastOp'.valok)) =>
            (lastOp'.err = "TypeError" /\ blobs' = blobs) ]_vars

(***************************************************************************)
(* Measurement, MetricSet and Metric.                                      *)
(***************************************************************************)
\* the Metric that metric_set[name] gives the constructor of a Measurement
MetricOf(name) == metricset_getitem(mset.metrics, name)

C14_BlobsByReference ==
    (mpc = "asked" /\ mout.op = "json") =>
        /\ mout.err = "none"
        /\ DOMAIN mout.doc.blobs = DOMAIN meas.linked_blobs
        /\ \A k \in DOMAIN meas.linked_blobs :
               mout.doc.blobs[k] = meas.linked_blobs[k].identifier

\* the key of a lookup as a Name: itself, or Name(metric=key)
CoercedKey(key) ==
    IF key.kind = "name" THEN [err |-> "none", name |-> key.name]
    ELSE NameInit(NoArg, key, NoArg)
\* the Metrics a MetricSet holds
Stored == {mset.metrics[n] : n \in DOMAIN mset.metrics}

\* C18: a lookup with a key that is a Name or coerces to one returns the
\* stored Metric of that name, or raises KeyError when there is none; `in`
\* is true exactly when the lookup succeeds; every stored Metric is what a
\* lookup with its name returns, and every Metric handed to the constructor
\* left a stored Metric of its name.
C18_MetricSetLookup ==
    mset.has =>
        /\ (mpc = "asked" /\ mout.op = "getitem"
            /\ CoercedKey(mout.key).err = "none") =>
               IF \E m \in Stored : name_eq(m.name, CoercedKey(mout.key).name)
               THEN /\ mout.err = "none"
                    /\ mout.metric \in Stored
                    /\ name_eq(mout.metric.name, CoercedKey(mout.key).name)
               ELSE mout.err = "KeyError"
        /\ (mpc = "asked" /\ mout.op = "contains") =>
               (mout.flag <=> MetricOf(mout.key).err = "none")
        /\ \A m \in Stored :
               /\ MetricOf(NameArg(m.name)).err = "none"
               /\ MetricOf(NameArg(m.name)).metric = m
        /\ (mpc = "asked" /\ mout.op = "metricset" /\ mout.err = "none") =>
               \A i \in 1..Len(mout.items) :
                   \E m \in Stored : name_eq(m.name, mout.items[i].v.name)

\* a str key has been coerced and found in a MetricSet of two Metrics
C18_Witness ==
    /\ mpc = "asked"
    /\ mout.op = "getitem"
    /\ mout.key.kind = "str"
    /\ mout.err = "none"
    /\ Cardinality(DOMAIN mset.metrics) = 2

\* C19: two Metrics compare equal iff their names, their units, their
\* descriptions and their references are equal.
C19_MetricEqualityAllFields ==
    (mpc = "compared" /\ mout.op = "eq") =>
        (mout.flag <=> /\ name_eq(mheld.metric.name, mcall.metric.name)
                       /\ mheld.metric.unit = mcall.metric.unit
                       /\ mheld.metric.description = mcall.metric.description
                       /\ reference(mheld.metric) = reference(mcall.metric))

\* t is s without its trailing newlines
Stripped(s, t) ==
    /\ Len(t) <= Len(s)
    /\ t = SubSeq(s, 1, Len(t))
    /\ \A i \in (Len(t) + 1)..Len(s) : s[i] = NL
    /\ (t = << >> \/ t[Len(t)] # NL)
\* what the reference dict of the call has under key k
Supplied_ref(k) ==
    IF IsNone(mcall.reference) THEN None ELSE get(Val(mcall.reference), k)

\* C20: the Metric that deserialize returns has the name, the description
\* without its trailing newlines, the unit, the tags and the reference doc,
\* page and url of the record it was given.
C20_DeserializeMapsEveryField ==
    (mpc \in {"made", "compared"} /\ mcall.op = "deserialize"
     /\ mcall.err = "none") =>
        /\ name_eq(mcall.metric.name, CoercedKey(mcall.name).name)
        /\ Stripped(Val(mcall.description), mcall.metric.description)
        /\ mcall.metric.unit = mcall.unit
        /\ mcall.metric.reference_doc = Supplied_ref("doc")
        /\ mcall.metric.reference_page = Supplied_ref("page")
        /\ mcall.metric.reference_url = Supplied_ref("url")
        /\ (~IsNone(mcall.tags) => mcall.metric.tags = Val(mcall.tags))

(***************************************************************************)
(* The reconstruction of the links from Measurements to Blobs.             *)
(***************************************************************************)
\* the calls of from_json made for the job at hand
Calls == {jcalls[i] : i \in 1..Len(jcalls)}
\* the blobs field of the document of call c
Refs(c) == c.json_data.blobs
\* the documents of the list of call c that carry the identifier id
DocsOf(c, id) ==
    IF IsNone(c.blobs_json) THEN {}
    ELSE {Val(c.blobs_json)[i] : i \in matching(Val(c.blobs_json), id)}
\* the linked blobs of the Measurement that call c returned
Linked(c) == c.measurement.linked_blobs

\* C15: from_json returns a Measurement; with a blob list, it has under
\* each key whose identifier occurs in the list, and under no other key, a
\* Blob with that identifier and the name and data of a matching document;
\* without a blob list it has no linked blobs.
C15_BlobsResolvedByIdentifier ==
    \A c \in Calls :
        /\ c.err = "none"
        /\ c.measurement.live
        /\ DOMAIN Linked(c) = {k \in DOMAIN Refs(c) : DocsOf(c, Refs(c)[k]) # {}}
        /\ \A k \in DOMAIN Linked(c) :
               /\ Linked(c)[k].identifier = Refs(c)[k]
               /\ \E doc \in DocsOf(c, Refs(c)[k]) :
                      /\ Linked(c)[k].name = doc.name
                      /\ jsonify_dict(Linked(c)[k].datums) = doc.data

\* C16: when a blob list is given and the identifier under some key is not
\* in it, from_json returns a Measurement without that key and with every
\* key whose identifier is in the list.
C16_DanglingReferenceDropped ==
    \A c \in Calls :
        (/\ ~IsNone(c.blobs_json)
         /\ \E k \in DOMAIN Refs(c) : DocsOf(c, Refs(c)[k]) = {}) =>
            /\ c.err = "none"
            /\ c.measurement.live
            /\ \A k \in DOMAIN Refs(c) :
                   k \in DOMAIN Linked(c) <=> DocsOf(c, Refs(c)[k]) # {}

\* C17: when the documents of two Measurements carry one blob identifier
\* and the blob list holds that Blob once, both are deserialized and the
\* Blobs under those keys have that one identifier and compare equal.
C17_SharedBlobSurvives ==
    \A i \in 1..Len(jcalls), j \in 1..Len(jcalls) :
        \A k1 \in DOMAIN Refs(jcalls[i]), k2 \in DOMAIN Refs(jcalls[j]) :
            (/\ i # j
             /\ Refs(jcalls[i])[k1] = Refs(jcalls[j])[k2]
             /\ ~IsNone(jcalls[i].blobs_json)
             /\ Cardinality(matching(Val(jcalls[i].blobs_json),
                                     Refs(jcalls[i])[k1])) = 1) =>
                /\ jcalls[i].err = "none" /\ jcalls[j].err = "none"
                /\ k1 \in DOMAIN Linked(jcalls[i])
                /\ k2 \in DOMAIN Linked(jcalls[j])
                /\ Linked(jcalls[i])[k1].identifier = Linked(jcalls[j])[k2].identifier
                /\ blob_eq(Linked(jcalls[i])[k1], Linked(jcalls[j])[k2])

(***************************************************************************)
(* Names side by side.                                                     *)
(***************************************************************************)
Related == trio # {} /\ order # << >>
\* `y in x` as the caller found it
In(y, x) == order[x][y]

\* C21: containment of Names is a strict hierarchy: no Name is in itself,
\* `B in A` excludes `A in B`, and `B in A` with `C in B` gives `C in A`.
C21_ContainmentStrictOrder ==
    Related =>
        /\ \A A \in trio : ~In(A, A)
        /\ \A A \in trio, B \in trio : In(B, A) => ~In(A, B)
        /\ \A A \in trio, B \in trio, C \in trio :
               (In(B, A) /\ In(C, B)) => In(C, A)

\* a specification in a metric in a package, and so in the package
C21_Witness ==
    /\ Related
    /\ \E A \in trio, B \in trio, C \in trio :
           /\ PackageName(A) /\ MetricName(B) /\ SpecName(C)
           /\ In(B, A)
           /\ In(C, B)
           /\ In(C, A)

\* every construction succeeded, and the Names are equal with equal hashes
AllEqual(rs) ==
    /\ \A i \in 1..Len(rs) : rs[i].err = "none"
    /\ \A i \in 1..Len(rs), j \in 1..Len(rs) :
           /\ name_eq(rs[i].name, rs[j].name)
           /\ name_hash(rs[i].name) = name_hash(rs[j].name)

C22_RewrapWitness ==
    /\ forms.op = "rewrap"
    /\ ~Present(forms.n.package)
    /\ Present(forms.n.metric)
    /\ forms.wrapped.err = "none"

====
